---- MODULE Spec2Model ----
(***************************************************************************)
(* Model of smoothdata (src/smoothdata.py): a moving average along one     *)
(* dimension of a scipp variable, written as three consecutive loops       *)
(* (start, main, end) over a fresh copy of the input.                      *)
(*                                                                         *)
(* Values are exact rationals <<numerator, denominator>> in lowest terms   *)
(* (sc.mean is sum / count; on the small integers used here the float64    *)
(* quotient is equal for two windows exactly when the rationals are).      *)
(* Slicing and item assignment follow the Python conventions scipp uses:   *)
(* a slice is clamped to the data and a negative bound counts from the     *)
(* end; an integer index outside the data raises.  The data are taken to   *)
(* be floating point, so that a mean can be assigned to an element of out. *)
(***************************************************************************)
EXTENDS Integers, Sequences, FiniteSets, TLC

\* ---------------------------------------------------------------- bounds
MaxLen == 5
MaxVal == 5
MaxNPoints == 6

\* ------------------------------------------------------------- constants
MinNPoints == 3

None == "None"
Dims == {None, "x"}

VARIABLES
    heap,        \* object id -> contents (sequence of values) of each scipp variable
    variable,    \* the argument `variable`: id of the caller's object
    dim,         \* the argument `dim`
    NPoints,     \* the argument `NPoints`
    out,         \* the local `out`: id of the output object, 0 before line 32
    data_length, \* the local `data_length`
    hr,          \* the local `hr`
    index,       \* the loop variable `index`
    pc,          \* position in smoothdata
    err,         \* the exception raised, None while none
    before,      \* history: contents of `variable` when the call was made
    written,     \* history: number of assignments made to each index of out
    width        \* history: number of elements averaged by the last assignment to each index

vars == <<heap, variable, dim, NPoints, out, data_length, hr, index, pc, err,
          before, written, width>>

\* ------------------------------------------------------------ arithmetic
RECURSIVE GCD(_, _)
GCD(a, b) == IF b = 0 THEN a ELSE GCD(b, a % b)

Norm(n, d) == LET g == GCD(n, d) IN <<n \div g, d \div g>>

Val(n) == <<n, 1>>

NaN == <<0, 0>>

RAdd(a, b) == Norm(a[1] * b[2] + b[1] * a[2], a[2] * b[2])

RECURSIVE SumSeq(_)
SumSeq(s) == IF s = <<>> THEN Val(0) ELSE RAdd(Head(s), SumSeq(Tail(s)))

\* sc.mean(x, dim): the sum over the count; the mean of nothing is not a number
Mean(s) ==
    IF Len(s) = 0 THEN NaN
    ELSE LET t == SumSeq(s) IN Norm(t[1], t[2] * Len(s))

\* ------------------------------------------------------ scipp operations
\* A slice bound as Python resolves it on data of length n
SliceBound(i, n) ==
    IF i < 0 THEN (IF i + n < 0 THEN 0 ELSE i + n)
    ELSE (IF i > n THEN n ELSE i)

\* variable[dim, start:stop], 0-based, half-open
Slice(s, start, stop) ==
    LET lo == SliceBound(start, Len(s))
        hi == SliceBound(stop, Len(s))
    IN  IF lo < hi THEN SubSeq(s, lo + 1, hi) ELSE <<>>

\* whether out[dim, i] names an element of data of length n
InRange(i, n) == i >= -n /\ i < n

\* the 1-based position out[dim, i] names
Position(i, n) == IF i < 0 THEN i + n + 1 ELSE i + 1

\* out[dim, i] = v
SetItem(o, i, v) == [o EXCEPT ![Position(i, Len(o))] = v]

\* (mutation) out = variable: the output is the caller's own object
CopyAliased(v) == v

\* variable.copy(): the id of a fresh object
Copy(v) == v + 1

\* (mutation) hr = (NPoints - 1) // 2: an even NPoints rounded down to odd
HalfRangeRoundedDown(np) == (np - 1) \div 2

\* hr = NPoints // 2
HalfRange(np) == np \div 2

\* ------------------------------------------------------- the three loops
\* The slice each loop averages for `index`
\* (mutations) an end bound one short; a start bound one late
StartWindowShort(v, i, h) == Slice(v, 0, i + h)

MainWindowShort(v, i, h) == Slice(v, i - h, i + h)

MainWindowLate(v, i, h) == Slice(v, i - h + 1, i + h + 1)

StartWindow(v, i, h) == Slice(v, 0, i + h + 1)

MainWindow(v, i, h) == Slice(v, i - h, i + h + 1)

EndWindow(v, i, h, n) == Slice(v, i - h, n)

\* Where each loop starts and stops (range(first, last))
StartFirst(h, n) == 0
StartLast(h, n) == h
MainFirst(h, n) == h
MainLast(h, n) == n - h
EndFirst(h, n) == n - h
EndLast(h, n) == n

\* ------------------------------------------- the call as a pure function
\* The slice the named loop averages for index i
Window(loop, v, i, h, n) ==
    CASE loop = "start" -> StartWindow(v, i, h)
      [] loop = "main"  -> MainWindow(v, i, h)
      [] loop = "end"   -> EndWindow(v, i, h, n)

\* for index in range(i, last): out[dim, index] = sc.mean(window, dim)
\* r.err is the exception raised so far (None while none), r.val the contents of out
RECURSIVE ForRange(_, _, _, _, _, _, _)
ForRange(r, v, i, last, loop, h, n) ==
    IF r.err # None \/ i >= last THEN r
    ELSE IF ~InRange(i, Len(r.val)) THEN [err |-> "IndexError", val |-> r.val]
    ELSE ForRange([err |-> None,
                   val |-> SetItem(r.val, i, Mean(Window(loop, v, i, h, n)))],
                  v, i + 1, last, loop, h, n)

\* smoothdata(variable, dim, NPoints): the exception raised (None if none) and,
\* when it returns, the contents of the variable returned
Smoothdata(v, d, np) ==
    IF d = None THEN [err |-> "ValueError: no dim", val |-> <<>>]
    ELSE IF np < MinNPoints THEN [err |-> "ValueError: NPoints", val |-> <<>>]
    ELSE LET n  == Len(v)
             h  == HalfRange(np)
             r0 == [err |-> None, val |-> v]
             r1 == ForRange(r0, v, StartFirst(h, n), StartLast(h, n), "start", h, n)
             r2 == ForRange(r1, v, MainFirst(h, n), MainLast(h, n), "main", h, n)
             r3 == ForRange(r2, v, EndFirst(h, n), EndLast(h, n), "end", h, n)
         IN  r3

\* ------------------------------------------------------------------ Init
Values == {Val(10 * k) : k \in 1..MaxVal}

Inputs == UNION {[1..n -> Values] : n \in 0..MaxLen}

Init ==
    /\ variable = 1
    /\ \E s \in Inputs : heap = (1 :> s) /\ before = s
    /\ dim \in Dims
    /\ NPoints \in 1..MaxNPoints
    /\ out = 0
    /\ data_length = 0
    /\ hr = 0
    /\ index = 0
    /\ pc = "dim_check"
    /\ err = None
    /\ written = <<>>
    /\ width = <<>>

\* --------------------------------------------------------------- actions
\* if dim is None: raise ValueError
CheckDim ==
    /\ pc = "dim_check"
    /\ IF dim = None
       THEN pc' = "raised" /\ err' = "ValueError: no dim"
       ELSE pc' = "npoints_check" /\ err' = err
    /\ UNCHANGED <<heap, variable, dim, NPoints, out, data_length, hr, index,
                   before, written, width>>

\* if NPoints < 3: raise ValueError
CheckNPoints ==
    /\ pc = "npoints_check"
    /\ IF NPoints < MinNPoints
       THEN pc' = "raised" /\ err' = "ValueError: NPoints"
       ELSE pc' = "setup" /\ err' = err
    /\ UNCHANGED <<heap, variable, dim, NPoints, out, data_length, hr, index,
                   before, written, width>>

\* data_length = len(...); out = variable.copy(); hr = NPoints // 2
Setup ==
    /\ pc = "setup"
    /\ data_length' = Len(heap[variable])
    /\ out' = Copy(variable)
    /\ heap' = (out' :> heap[variable]) @@ heap
    /\ hr' = HalfRange(NPoints)
    /\ index' = StartFirst(hr', data_length')
    /\ written' = [i \in 1..data_length' |-> 0]
    /\ width' = [i \in 1..data_length' |-> 0]
    /\ pc' = "start"
    /\ UNCHANGED <<variable, dim, NPoints, err, before>>

\* One pass of a loop body: out[dim, index] = sc.mean(window, dim)
Assign(window) ==
    IF InRange(index, Len(heap[out]))
    THEN /\ heap' = [heap EXCEPT ![out] = SetItem(heap[out], index, Mean(window))]
         /\ written' = [written EXCEPT ![Position(index, Len(heap[out]))] = @ + 1]
         /\ width' = [width EXCEPT ![Position(index, Len(heap[out]))] = Len(window)]
         /\ index' = index + 1
         /\ UNCHANGED <<pc, err>>
    ELSE /\ pc' = "raised"
         /\ err' = "IndexError"
         /\ UNCHANGED <<heap, written, width, index>>

StartStep ==
    /\ pc = "start"
    /\ index < StartLast(hr, data_length)
    /\ Assign(Window("start", heap[variable], index, hr, data_length))
    /\ UNCHANGED <<variable, dim, NPoints, out, data_length, hr, before>>

StartExit ==
    /\ pc = "start"
    /\ index >= StartLast(hr, data_length)
    /\ pc' = "main"
    /\ index' = MainFirst(hr, data_length)
    /\ UNCHANGED <<heap, variable, dim, NPoints, out, data_length, hr, err,
                   before, written, width>>

MainStep ==
    /\ pc = "main"
    /\ index < MainLast(hr, data_length)
    /\ Assign(Window("main", heap[variable], index, hr, data_length))
    /\ UNCHANGED <<variable, dim, NPoints, out, data_length, hr, before>>

MainExit ==
    /\ pc = "main"
    /\ index >= MainLast(hr, data_length)
    /\ pc' = "end"
    /\ index' = EndFirst(hr, data_length)
    /\ UNCHANGED <<heap, variable, dim, NPoints, out, data_length, hr, err,
                   before, written, width>>

EndStep ==
    /\ pc = "end"
    /\ index < EndLast(hr, data_length)
    /\ Assign(Window("end", heap[variable], index, hr, data_length))
    /\ UNCHANGED <<variable, dim, NPoints, out, data_length, hr, before>>

\* return out
Return ==
    /\ pc = "end"
    /\ index >= EndLast(hr, data_length)
    /\ pc' = "done"
    /\ UNCHANGED <<heap, variable, dim, NPoints, out, data_length, hr, index,
                   err, before, written, width>>

Next ==
    \/ CheckDim
    \/ CheckNPoints
    \/ Setup
    \/ StartStep
    \/ StartExit
    \/ MainStep
    \/ MainExit
    \/ EndStep
    \/ Return

Spec == Init /\ [][Next]_vars

\* The stepwise run and the pure function give the same outcome
StepwiseAgrees ==
    /\ pc = "done" => Smoothdata(before, dim, NPoints) = [err |-> None, val |-> heap[out]]
    /\ pc = "raised" => Smoothdata(before, dim, NPoints).err = err

\* ---------------------------------------------------------------- claims
Valid == dim # None /\ NPoints >= 3

Returned == heap[out]

Interior == hr .. (data_length - hr - 1)

Constant(s) == \A i \in 1..Len(s) : s[i] = s[1]

\* C1: on return, for every i in [h, N-h) the output at i is the arithmetic mean
\* of the input elements at indices i-h .. i+h inclusive.
C1_InteriorMean ==
    pc = "done" =>
        \A i \in Interior :
            Returned[i + 1] = Mean(SubSeq(before, i - hr + 1, i + hr + 1))

C1_Witness ==
    /\ pc = "done"
    /\ \E i \in Interior : Returned[i + 1] # before[i + 1]

\* C2: on return, the output at the first index is the mean of input[0 : h+1]
\* and at the last index the mean of input[N-1-h : N], the last h+1 elements,
\* for every N, including N < NPoints where the start and end loops overlap
\* (a window reaching past either end of the data holds what is available).
C2_Boundaries ==
    pc = "done" =>
        LET h  == NPoints \div 2
            n  == Len(before)
            hi == IF h + 1 > n THEN n ELSE h + 1
            lo == IF n - h < 1 THEN 1 ELSE n - h
        IN  /\ n >= 1
            /\ Returned[1] = Mean(SubSeq(before, 1, hi))
            /\ Returned[n] = Mean(SubSeq(before, lo, n))

\* C3: for a call with dim given and NPoints >= 3 on an input of any length
\* (stated here for non-empty inputs, where it already fails), the call raises
\* nothing and the output returned has the input's length.
C3_NeverFails ==
    (Valid /\ Len(before) >= 1) =>
        /\ pc # "raised"
        /\ pc = "done" => Len(Returned) = Len(before)

\* C4: the contents of `variable` are, at every step, on return and on error,
\* what they were before the call.
C4_InputUnchanged == heap[variable] = before

C4_Witness ==
    /\ pc = "done"
    /\ Returned # before
    /\ \A i \in 1..data_length : written[i] >= 1

\* C5 (the two checks): with dim unset the call raises the dim error and nothing
\* else happens, whatever NPoints is; with dim given and NPoints < 3 it raises the
\* NPoints error; in both cases no output object exists yet.
C5_ChecksFirst ==
    /\ dim = None =>
          /\ pc \in {"dim_check", "raised"}
          /\ pc = "raised" => err = "ValueError: no dim"
          /\ out = 0
    /\ (dim # None /\ NPoints < 3) =>
          /\ pc \in {"dim_check", "npoints_check", "raised"}
          /\ pc = "raised" => err = "ValueError: NPoints"
          /\ out = 0

\* C5: the two checks as above, and with dim given and NPoints = 3 the call
\* succeeds: it raises nothing.
C5_ErrorsAndSuccess ==
    /\ C5_ChecksFirst
    /\ (dim # None /\ NPoints = 3) => pc # "raised"

\* C6: for an even NPoints >= 4 the call ends as the call with NPoints + 1 does:
\* the same output when it returns, the same exception when it raises.
C6_EvenAsNextOdd ==
    (NPoints >= 4 /\ NPoints % 2 = 0) =>
        /\ pc = "done" =>
              Smoothdata(before, dim, NPoints + 1) = [err |-> None, val |-> Returned]
        /\ pc = "raised" => Smoothdata(before, dim, NPoints + 1).err = err

C6_Witness ==
    /\ pc = "done"
    /\ NPoints >= 4
    /\ NPoints % 2 = 0
    /\ Returned # before
    /\ Interior # {}

Scenario == <<Val(10), Val(20), Val(30), Val(40), Val(50)>>

\* C7 as stated: input [10, 20, 30, 40, 50] with NPoints = 5 returns
\* [20.0, 22.5, 30.0, 37.5, 40.0].
C7_AsStated ==
    (pc = "done" /\ before = Scenario /\ NPoints = 5) =>
        Returned = <<Val(20), <<45, 2>>, Val(30), <<75, 2>>, Val(40)>>

\* C7 amended: input [10, 20, 30, 40, 50] with NPoints = 5 returns
\* [20.0, 25.0, 30.0, 35.0, 40.0]: index 0 is the mean of [10, 20, 30] and
\* index 1 the mean of [10, 20, 30, 40].
C7_Scenario ==
    (before = Scenario /\ NPoints = 5 /\ dim # None) =>
        /\ pc # "raised"
        /\ pc = "done" =>
              Returned = <<Val(20), Val(25), Val(30), Val(35), Val(40)>>

C7_Witness == pc = "done" /\ before = Scenario /\ NPoints = 5

\* C8: smoothing a constant sequence (dim given, NPoints >= 3; stated here for
\* non-empty sequences, where it already fails) completes and returns the
\* constant at every index.
C8_ConstantKept ==
    (Valid /\ Len(before) >= 1 /\ Constant(before)) =>
        /\ pc # "raised"
        /\ pc = "done" => Returned = before

\* C9: when N <= NPoints and the call has returned, every index in [0, N) has
\* been assigned exactly once.
C9_AssignedOnce ==
    (pc = "done" /\ data_length <= NPoints) =>
        \A i \in 1..data_length : written[i] = 1

\* C10 as stated: on return, every index at distance at least h from both ends
\* was averaged over exactly NPoints elements, for odd and even NPoints.
C10_AsStated ==
    pc = "done" => \A i \in Interior : width[i + 1] = NPoints

\* C10 amended: on return, every index at distance at least h from both ends was
\* averaged over exactly 2h + 1 elements, which is NPoints for an odd NPoints and
\* NPoints + 1 for an even one; every other index was averaged over fewer.
C10_FullWindow ==
    pc = "done" =>
        LET full == IF NPoints % 2 = 1 THEN NPoints ELSE NPoints + 1
            h    == NPoints \div 2
        IN  \A i \in 0..(data_length - 1) :
                IF i >= h /\ i < data_length - h
                THEN width[i + 1] = full
                ELSE width[i + 1] >= 1 /\ width[i + 1] < full

C10_Witness ==
    /\ pc = "done"
    /\ NPoints % 2 = 0
    /\ Interior # {}
    /\ \E i \in 1..data_length : width[i] < NPoints

====
